---------------------------- MODULE Spec2Model ----------------------------
(***************************************************************************)
(* Model of the PyCon India 2025 DNS schedule server,                      *)
(* src/inpycon25_dns/src/dns_server.py (class PyConDNSDemo).               *)
(*                                                                         *)
(* Text is a sequence of Unicode code points; bytes are numbers 0..255.    *)
(* An ISO-8601 timestamp string is the tuple of the fields written in it,  *)
(* <<day of month, hour, minute, UTC offset in minutes>> (the dataset is   *)
(* September 2025); a datetime is a record with the minute of the day.     *)
(***************************************************************************)
EXTENDS Integers, Sequences, FiniteSets, TLC

VARIABLES
    schedule,    \* self.schedule = (time_wise_talk, talks)
    serverAddr,  \* the address the sniffed port belongs to (environment)
    running,     \* the sniff loop of start() is alive
    pc,          \* "waiting" for a packet or a call, or "done" with one
    pkt,         \* the packet handed to handle_dns_query / create_dns_response
    branch,      \* the routing branch handle_dns_query took
    outcome,     \* how the last operation ended
    sent,        \* the datagrams the last operation passed to send()
    ret,         \* the last direct lookup call: operation, argument, value
    wire,        \* the server's own datagrams the sniffer captured, not yet handled
    replies,     \* the datagrams the server sent since the last packet of a client
    loaded       \* the value parse_talks returned at startup

vars == <<schedule, serverAddr, running, pc, pkt, branch, outcome, sent, ret,
          wire, replies, loaded>>

(***************************************************************************)
(* Bounds of the model.                                                    *)
(***************************************************************************)
MaxVarSlot == 1   \* room positions 0..MaxVarSlot at which a dataset is perturbed
MaxShift == 3     \* ASCII characters 0..MaxShift put in front of a test line
MaxReplies == 3   \* datagrams the server sends in answer to one query of a client

(***************************************************************************)
(* Constants of the program.                                               *)
(***************************************************************************)
Port == 3333          \* __init__(port = 3333)
SlotMinutes == 30     \* timedelta(minutes=30)
TalksPerRoom == 7     \* range(7)
ChunkBytes == 255     \* encoded[:255]
TxtTtl == 60          \* ttl=60

Days == <<1, 2>>                        \* for day in [1,2]
PatNowTalks == <<110, 111, 119, 46, 116, 97, 108, 107, 115>>  \* "now.talks"
PatNextTalks == <<110, 101, 120, 116, 46, 116, 97, 108, 107, 115>>  \* "next.talks"
PatTrack1Talks == <<116, 114, 97, 99, 107, 49, 46, 116, 97, 108, 107, 115>>  \* "track1.talks"
HelpText == <<81, 117, 101, 114, 121, 32, 116, 104, 101, 32, 80, 121, 67, 111, 110, 32, 115, 99, 104, 101, 100, 117, 108, 101, 32, 119, 105, 116, 104, 32, 68, 78, 83, 33>>  \* "Query the PyCon schedule with DNS!"
Track1 == <<84, 114, 97, 99, 107, 32, 49>>  \* "Track 1"
Track2 == <<84, 114, 97, 99, 107, 32, 50>>  \* "Track 2"
Track3 == <<84, 114, 97, 99, 107, 32, 51>>  \* "Track 3"
Tracks == <<Track1, Track2, Track3>>    \* for track in ['Track 1', 'Track 2', 'Track 3']
SepBar == <<32, 124, 32>>  \* " | "
EnDash == <<8211>>  \* the en dash between the two times
SepEmDash == <<32, 8212, 32>>  \* " - " with an em dash
SepComma == <<44, 32>>  \* ", "
TextTBA == <<84, 66, 65>>  \* "TBA"

Range(s) == {s[i] : i \in 1..Len(s)}

(***************************************************************************)
(* datetime                                                                *)
(***************************************************************************)
\* datetime.fromisoformat: the aware datetime written in the string
FromIsoFormat(s) == [day |-> s[1], minute |-> s[2] * 60 + s[3], utcoffset |-> s[4]]

\* datetime + timedelta(minutes=n): wall-clock arithmetic, tzinfo kept
AddMinutes(dt, n) ==
    LET total == dt.minute + n
    IN  [day |-> dt.day + (total \div 1440), minute |-> total % 1440,
         utcoffset |-> dt.utcoffset]

\* datetime.isoformat
IsoFormat(dt) == <<dt.day, dt.minute \div 60, dt.minute % 60, dt.utcoffset>>

\* aware datetimes compare by their UTC instant (minutes)
Instant(dt) == dt.day * 1440 + dt.minute - dt.utcoffset

\* strftime("%H:%M")
Strftime(dt) ==
    LET hh == dt.minute \div 60
        mm == dt.minute % 60
    IN  <<48 + (hh \div 10), 48 + (hh % 10), 58, 48 + (mm \div 10), 48 + (mm % 10)>>

\* get_time(start_time_str, track): the key of the time index
get_time(start_time_str, track) ==
    LET start_time == FromIsoFormat(start_time_str)
        end_time == AddMinutes(start_time, SlotMinutes)
    IN  <<start_time_str, IsoFormat(end_time), track>>

(***************************************************************************)
(* dict: a Python dict that is iterated is a sequence of <<key, value>>    *)
(* in insertion order; assigning to a key it holds keeps the key's place.  *)
(***************************************************************************)
\* the dict left by assigning pairs[1], pairs[2], ... in turn: a key stands
\* where it was first inserted and holds the value last assigned to it
DictOf(pairs) ==
    LET N == Len(pairs)
        firsts == SelectSeq([n \in 1..N |-> n],
                      LAMBDA n : \A m \in 1..(n - 1) : pairs[m][1] # pairs[n][1])
        lastOf(k) == CHOOSE n \in 1..N :
                        /\ pairs[n][1] = k
                        /\ \A m \in (n + 1)..N : pairs[m][1] # k
    IN  [i \in 1..Len(firsts) |->
            <<pairs[firsts[i]][1], pairs[lastOf(pairs[firsts[i]][1])][2]>>]

(***************************************************************************)
(* parse_talks                                                             *)
(***************************************************************************)
\* the (day, track, talk) triples in the order of the three nested loops
LoopOrder ==
    [n \in 1..(Len(Days) * Len(Tracks) * TalksPerRoom) |->
        LET k == n - 1
        IN  <<Days[(k \div (Len(Tracks) * TalksPerRoom)) + 1],
              Tracks[((k \div TalksPerRoom) % Len(Tracks)) + 1],
              k % TalksPerRoom>>]

\* temp_data = data[...][day]['rooms'][track][talk]
Entry(data, n) == data[LoopOrder[n][1]][LoopOrder[n][2]][LoopOrder[n][3]]

\* single_talk after the inner loop over ['date', 'title', 'persons'] and 'track'
SingleTalk(temp_data, track) ==
    [date |-> temp_data.date,
     title |-> temp_data.title,
     persons |-> [v \in 1..Len(temp_data.persons) |-> temp_data.persons[v].public_name],
     track |-> track]

\* time_wise_talk after all iterations: time_wise_talk[tup_time] = guid
TimeWise(data) ==
    DictOf([n \in 1..Len(LoopOrder) |->
               <<get_time(Entry(data, n).date, LoopOrder[n][2]), Entry(data, n).guid>>])

\* talks after all iterations: the last entry written under a guid stays
TalksAfter(data) ==
    LET N == Len(LoopOrder)
        guids == {Entry(data, n).guid : n \in 1..N}
        last(g) == CHOOSE n \in 1..N :
                      /\ Entry(data, n).guid = g
                      /\ \A m \in 1..N : Entry(data, m).guid = g => m <= n
    IN  [g \in guids |-> SingleTalk(Entry(data, last(g)), LoopOrder[last(g)][2])]

parse_talks(data) == <<TimeWise(data), TalksAfter(data)>>

(***************************************************************************)
(* The schedule datasets the server is started on: the document of         *)
(* data['schedule']['conference']['days'][day]['rooms'][track][talk].      *)
(* Every talk has its own guid.  The plain dataset runs the three tracks   *)
(* in parallel, seven slots a day from 10:10 (+05:30); the others perturb  *)
(* the room of Track 1 on day 1.                                           *)
(***************************************************************************)
TitleIntro == <<73, 110, 116, 114, 111>>  \* "Intro"
TitleTalk == <<84, 97, 108, 107, 32>>  \* "Talk "
NameAsha == <<65, 115, 104, 97>>  \* "Asha"
NameRavi == <<82, 97, 118, 105>>  \* "Ravi"

TrackNo(track) == CHOOSE k \in 1..Len(Tracks) : Tracks[k] = track

BaseDate(day, talk) ==
    LET m == 610 + SlotMinutes * talk
    IN  <<12 + day, m \div 60, m % 60, 330>>

BaseEntry(day, track, talk) ==
    [guid |-> day * 100 + TrackNo(track) * 10 + talk,
     date |-> BaseDate(day, talk),
     title |-> IF day = 1 /\ track = Track1 /\ talk = 0
               THEN TitleIntro
               ELSE TitleTalk \o <<48 + day, 48 + TrackNo(track), 48 + talk>>,
     persons |-> CASE talk % 3 = 0 -> <<>>
                   [] talk % 3 = 1 -> <<[public_name |-> NameAsha]>>
                   [] OTHER -> <<[public_name |-> NameAsha], [public_name |-> NameRavi]>>]

\* a title of 100 en dashes: 300 bytes of UTF-8
LongTitle == [i \in 1..100 |-> 8211]

Variants ==
    {[kind |-> "plain", slot |-> 0], [kind |-> "long", slot |-> 0]}
    \cup {[kind |-> k, slot |-> s] : k \in {"reordered", "same_start"}, s \in 0..MaxVarSlot}

Dataset(v) ==
    [day \in Range(Days) |-> [track \in Range(Tracks) |-> [talk \in 0..(TalksPerRoom - 1) |->
        LET    base == BaseEntry(day, track, talk)
               here == day = 1 /\ track = Track1
        IN  CASE here /\ v.kind = "reordered" /\ talk = v.slot -> BaseEntry(day, track, talk + 1)
              [] here /\ v.kind = "reordered" /\ talk = v.slot + 1 -> BaseEntry(day, track, talk - 1)
              [] here /\ v.kind = "same_start" /\ talk = v.slot + 1 ->
                    [base EXCEPT !.date = BaseDate(day, talk - 1)]
              [] here /\ v.kind = "long" /\ talk = 1 -> [base EXCEPT !.title = LongTitle]
              [] OTHER -> base]]]

ServerAddrs == {"127.0.0.1", "192.0.2.53"}

(***************************************************************************)
(* The lookups                                                             *)
(***************************************************************************)
\* get_current_talks(now_str)
get_current_talks(sched, now_str) ==
    LET now == FromIsoFormat(now_str)
        time_wise == sched[1]
        talks == sched[2]
        hits == SelectSeq(time_wise,
                    LAMBDA e : /\ Instant(FromIsoFormat(e[1][1])) <= Instant(now)
                               /\ Instant(now) < Instant(FromIsoFormat(e[1][2])))
    IN  [i \in 1..Len(hits) |-> talks[hits[i][2]]]

\* get_next_talks with `start >= now` for `start > now`
get_next_talks_inclusive(sched, now_str) ==
    LET now == FromIsoFormat(now_str)
        time_wise == sched[1]
        talks == sched[2]
        later == SelectSeq(time_wise,
                    LAMBDA e : Instant(FromIsoFormat(e[1][1])) >= Instant(now))
        upcoming == [i \in 1..Len(later) |->
                        <<FromIsoFormat(later[i][1][1]), later[i][1][3], later[i][2]>>]
        earliest_start == CHOOSE m \in {Instant(u[1]) : u \in Range(upcoming)} :
                              \A u \in Range(upcoming) : m <= Instant(u[1])
        first == SelectSeq(upcoming, LAMBDA u : Instant(u[1]) = earliest_start)
        pairs == [i \in 1..Len(first) |-> <<first[i][2], talks[first[i][3]]>>]
    IN  IF upcoming = <<>> THEN <<>> ELSE DictOf(pairs)

\* get_next_talks(now_str): a dict from track to talk
get_next_talks(sched, now_str) ==
    LET now == FromIsoFormat(now_str)
        time_wise == sched[1]
        talks == sched[2]
        later == SelectSeq(time_wise,
                    LAMBDA e : Instant(FromIsoFormat(e[1][1])) > Instant(now))
        upcoming == [i \in 1..Len(later) |->
                        <<FromIsoFormat(later[i][1][1]), later[i][1][3], later[i][2]>>]
        earliest_start == CHOOSE m \in {Instant(u[1]) : u \in Range(upcoming)} :
                              \A u \in Range(upcoming) : m <= Instant(u[1])
        first == SelectSeq(upcoming, LAMBDA u : Instant(u[1]) = earliest_start)
        pairs == [i \in 1..Len(first) |-> <<first[i][2], talks[first[i][3]]>>]
    IN  IF upcoming = <<>> THEN <<>> ELSE DictOf(pairs)

\* get_track_talks(track_num)
get_track_talks(sched, track_num) ==
    LET time_wise == sched[1]
        talks == sched[2]
        hits == SelectSeq(time_wise, LAMBDA e : e[1][3] = track_num)
    IN  [i \in 1..Len(hits) |-> talks[hits[i][2]]]

(***************************************************************************)
(* Text                                                                    *)
(***************************************************************************)
\* str.lower(), on the ASCII letters a query name is made of
Lower(text) ==
    [i \in 1..Len(text) |-> IF text[i] >= 65 /\ text[i] <= 90 THEN text[i] + 32 ELSE text[i]]

\* needle in hay
Contains(hay, needle) ==
    \E i \in 1..(Len(hay) - Len(needle) + 1) :
        SubSeq(hay, i, i + Len(needle) - 1) = needle

RECURSIVE Join(_, _)
\* sep.join(items)
Join(sep, items) ==
    IF items = <<>> THEN <<>>
    ELSE IF Len(items) = 1 THEN items[1]
    ELSE items[1] \o sep \o Join(sep, Tail(items))

\* the line talks_to_txt_rdata builds for one talk
TxtLine(t) ==
    LET start_dt == FromIsoFormat(t.date)
        end_dt == AddMinutes(start_dt, SlotMinutes)
        joined == Join(SepComma, t.persons)
        speakers == IF joined = <<>> THEN TextTBA ELSE joined
    IN  t.track \o SepBar \o Strftime(start_dt) \o EnDash \o Strftime(end_dt)
            \o SepBar \o t.title \o SepEmDash \o speakers

\* a Python value of the list `answers`: a talk dict or a str
DictItems(talks) == [i \in 1..Len(talks) |-> [tag |-> "dict", val |-> talks[i]]]
StrItem(text) == [tag |-> "str", val |-> text]

\* talks_to_txt_rdata(talks_list): t["date"] on a str raises TypeError
talks_to_txt_rdata(talks_list) ==
    IF \E i \in 1..Len(talks_list) : talks_list[i].tag = "str"
    THEN [raised |-> TRUE, lines |-> <<>>]
    ELSE [raised |-> FALSE, lines |-> [i \in 1..Len(talks_list) |-> TxtLine(talks_list[i].val)]]

(***************************************************************************)
(* UTF-8                                                                   *)
(***************************************************************************)
Utf8Width(c) == IF c < 128 THEN 1 ELSE IF c < 2048 THEN 2 ELSE IF c < 65536 THEN 3 ELSE 4

EncodeChar(c) ==
    CASE c < 128 -> <<c>>
      [] c >= 128 /\ c < 2048 -> <<192 + (c \div 64), 128 + (c % 64)>>
      [] c >= 2048 /\ c < 65536 ->
            <<224 + (c \div 4096), 128 + ((c \div 64) % 64), 128 + (c % 64)>>
      [] OTHER ->
            <<240 + (c \div 262144), 128 + ((c \div 4096) % 64),
              128 + ((c \div 64) % 64), 128 + (c % 64)>>

RECURSIVE Utf8Encode(_)
\* str.encode("utf-8")
Utf8Encode(text) ==
    IF text = <<>> THEN <<>>
    ELSE IF Len(text) = 1 THEN EncodeChar(text[1])
    ELSE LET h == Len(text) \div 2
         IN  Utf8Encode(SubSeq(text, 1, h)) \o Utf8Encode(SubSeq(text, h + 1, Len(text)))

IsCont(b) == b >= 128 /\ b <= 191

\* the continuation bytes a lead byte announces; -1 for a byte that starts nothing
Followers(b) ==
    CASE b < 128 -> 0
      [] b >= 194 /\ b <= 223 -> 1
      [] b >= 224 /\ b <= 239 -> 2
      [] b >= 240 /\ b <= 244 -> 3
      [] OTHER -> -1

DecodeChar(bytes, i, n) ==
    CASE n = 0 -> bytes[i]
      [] n = 1 -> (bytes[i] - 192) * 64 + (bytes[i + 1] - 128)
      [] n = 2 -> (bytes[i] - 224) * 4096 + (bytes[i + 1] - 128) * 64 + (bytes[i + 2] - 128)
      [] OTHER -> (bytes[i] - 240) * 262144 + (bytes[i + 1] - 128) * 4096
                    + (bytes[i + 2] - 128) * 64 + (bytes[i + 3] - 128)

\* a character is decoded at i: a lead byte with all its continuation bytes
CharAt(bytes, i) ==
    LET n == Followers(bytes[i])
    IN  /\ n >= 0
        /\ i + n <= Len(bytes)
        /\ \A k \in 1..n : IsCont(bytes[i + k])

\* bytes.decode("utf-8", errors="ignore"): the bytes that decode to no
\* character (a continuation byte with no lead, a lead cut short) are skipped
Utf8DecodeIgnore(bytes) ==
    LET leads == SelectSeq([i \in 1..Len(bytes) |-> i],
                     LAMBDA i : ~IsCont(bytes[i]) /\ CharAt(bytes, i))
    IN  [j \in 1..Len(leads) |-> DecodeChar(bytes, leads[j], Followers(bytes[leads[j]]))]

\* Chunks with slices of ChunkBytes + 1 bytes
ChunksWide(txt) ==
    LET encoded == Utf8Encode(txt)
        n == (Len(encoded) + ChunkBytes) \div (ChunkBytes + 1)
    IN  [k \in 1..n |->
            Utf8DecodeIgnore(SubSeq(encoded, (ChunkBytes + 1) * (k - 1) + 1,
                                    IF (ChunkBytes + 1) * k < Len(encoded)
                                    THEN (ChunkBytes + 1) * k ELSE Len(encoded)))]

\* the while loop over `encoded`: chunks of one TXT string
Chunks(txt) ==
    LET encoded == Utf8Encode(txt)
        n == (Len(encoded) + ChunkBytes - 1) \div ChunkBytes
    IN  [k \in 1..n |->
            Utf8DecodeIgnore(SubSeq(encoded, ChunkBytes * (k - 1) + 1,
                                    IF ChunkBytes * k < Len(encoded)
                                    THEN ChunkBytes * k ELSE Len(encoded)))]

(***************************************************************************)
(* handle_dns_query and create_dns_response                                *)
(***************************************************************************)
\* rdata=chunks if len(chunks) > 1 else chunks[0]
RData(chunks) ==
    IF Len(chunks) > 1
    THEN [scalar |-> FALSE, strings |-> chunks]
    ELSE [scalar |-> TRUE, strings |-> <<chunks[1]>>]

\* DNSRR(rrname=qname, type="TXT", ttl=60, rdata=...)
TxtRR(qname, chunks) ==
    [rrname |-> qname, type |-> "TXT", ttl |-> TxtTtl, rdata |-> RData(chunks)]

\* response = ip / udp / dns
Response(q, txt_records) ==
    [net |-> "IP", src |-> q.dst, dst |-> q.src,
     sport |-> q.dport, dport |-> q.sport,
     id |-> q.id, qr |-> 1, aa |-> 1, qd |-> q.qd,
     an |-> [i \in 1..Len(txt_records) |-> TxtRR(q.qd[1].qname, Chunks(txt_records[i]))]]

Ended(how, datagrams) == [outcome |-> how, sent |-> datagrams]

\* create_dns_response(query_packet, txt_records).  send(fragment(response))
\* puts the one datagram `response` on the wire, in fragments of 512 bytes.
create_dns_response(query_packet, txt_records) ==
    IF query_packet.qd = <<>>
    THEN Ended("raised", <<>>)        \* query_packet[DNSQR]: IndexError
    ELSE IF query_packet.net = "IP"
    THEN IF query_packet.src = "127.0.0.1" /\ query_packet.sport = Port
         THEN Ended("dropped", <<>>)
         ELSE IF \E i \in 1..Len(txt_records) : Chunks(txt_records[i]) = <<>>
         THEN Ended("raised", <<>>)   \* chunks[0] of no chunks: IndexError
         ELSE Ended("sent", <<Response(query_packet, txt_records)>>)
    ELSE IF query_packet.net = "IPv6"
    THEN Ended("raised", <<>>)        \* query_packet[IP] of a packet with no IP layer: IndexError
    ELSE Ended("dropped", <<>>)       \* "Invalid ip"

\* Route with the track rule tried before the other two
RouteTrackFirst(query) ==
    IF Contains(query, PatTrack1Talks) THEN "Track"
    ELSE IF Contains(query, PatNowTalks) THEN "Now"
    ELSE IF Contains(query, PatNextTalks) THEN "Next"
    ELSE "Unknown"

\* the if/elif chain over the lowered query name
Route(query) ==
    IF Contains(query, PatNowTalks) THEN "Now"
    ELSE IF Contains(query, PatNextTalks) THEN "Next"
    ELSE IF Contains(query, PatTrack1Talks) THEN "Track"
    ELSE "Unknown"

\* `answers` of each branch.  get_current_talks() and get_next_talks() are
\* called without now_str: TypeError.
Answers(sched, br) ==
    CASE br = "Now" -> [raised |-> TRUE, items |-> <<>>]
      [] br = "Next" -> [raised |-> TRUE, items |-> <<>>]
      [] br = "Track" -> [raised |-> FALSE, items |-> DictItems(get_track_talks(sched, Track1))]
      [] OTHER -> [raised |-> FALSE, items |-> <<StrItem(HelpText)>>]

\* handle_dns_query(packet): the branch taken, how it ended, what it sent
handle_dns_query(sched, packet) ==
    IF ~packet.hasDNS
    THEN [branch |-> "none", outcome |-> "ignored", sent |-> <<>>]
    ELSE IF packet.qd = <<>>
    THEN [branch |-> "none", outcome |-> "raised", sent |-> <<>>]   \* packet[DNSQR]
    ELSE LET query == Lower(packet.qd[1].qname)
             br == Route(query)
             answers == Answers(sched, br)
             answers_txt == talks_to_txt_rdata(answers.items)
             done == create_dns_response(packet, answers_txt.lines)
         IN  IF answers.raised \/ answers_txt.raised
             THEN [branch |-> br, outcome |-> "raised", sent |-> <<>>]
             ELSE [branch |-> br, outcome |-> done.outcome, sent |-> done.sent]

(***************************************************************************)
(* State                                                                   *)
(***************************************************************************)
NoPacket ==
    [hasDNS |-> FALSE, net |-> "none", src |-> "", dst |-> "",
     sport |-> 0, dport |-> 0, id |-> 0, qd |-> <<>>, time |-> <<>>]

NoCall == [op |-> "none", arg |-> <<>>, value |-> <<>>]

Idle ==
    /\ pc = "waiting"
    /\ pkt = NoPacket
    /\ branch = "none"
    /\ outcome = "none"
    /\ sent = <<>>
    /\ ret = NoCall

\* __init__: the schedule is loaded, then start() sniffs
Init ==
    /\ schedule \in {parse_talks(Dataset(v)) : v \in Variants}
    /\ loaded = schedule
    /\ serverAddr \in ServerAddrs
    /\ running = TRUE
    /\ wire = <<>>
    /\ replies = 0
    /\ Idle

\* the reference times of the direct calls: every start and end held in the
\* store, the minute before the first and some times between and after
CallTimes ==
    UNION {{schedule[2][g].date,
            IsoFormat(AddMinutes(FromIsoFormat(schedule[2][g].date), SlotMinutes))}
           : g \in DOMAIN schedule[2]}
    \cup {<<13, 9, 0, 330>>, <<13, 10, 9, 330>>, <<13, 10, 20, 330>>, <<13, 10, 39, 330>>,
          <<13, 4, 40, 0>>, <<13, 5, 9, 0>>, <<13, 23, 0, 330>>, <<14, 13, 39, 330>>,
          <<14, 13, 40, 330>>, <<15, 0, 0, 330>>}

Track9 == <<84, 114, 97, 99, 107, 32, 57>>  \* "Track 9", a track the schedule lacks

QNames ==
    { <<110, 111, 119, 46, 116, 97, 108, 107, 115, 46, 101, 120, 97, 109, 112, 108, 101, 46>>,  \* "now.talks.example."
      <<78, 79, 87, 46, 84, 97, 108, 107, 115, 46, 101, 120, 97, 109, 112, 108, 101, 46>>,  \* "NOW.Talks.example."
      <<110, 101, 120, 116, 46, 116, 97, 108, 107, 115, 46, 101, 120, 97, 109, 112, 108, 101, 46>>,  \* "next.talks.example."
      <<78, 101, 120, 116, 46, 84, 65, 76, 75, 83, 46>>,  \* "Next.TALKS."
      <<116, 114, 97, 99, 107, 49, 46, 116, 97, 108, 107, 115, 46, 101, 120, 97, 109, 112, 108, 101, 46>>,  \* "track1.talks.example."
      <<84, 82, 65, 67, 75, 49, 46, 116, 97, 108, 107, 115, 46>>,  \* "TRACK1.talks."
      <<116, 114, 97, 99, 107, 50, 46, 116, 97, 108, 107, 115, 46, 101, 120, 97, 109, 112, 108, 101, 46>>,  \* "track2.talks.example."
      <<116, 114, 97, 99, 107, 51, 46, 116, 97, 108, 107, 115, 46, 101, 120, 97, 109, 112, 108, 101, 46>>,  \* "track3.talks.example."
      <<110, 111, 119, 46, 116, 97, 108, 107, 115, 46, 116, 114, 97, 99, 107, 49, 46, 116, 97, 108, 107, 115, 46>>,  \* "now.talks.track1.talks."
      <<116, 114, 97, 99, 107, 49, 46, 116, 97, 108, 107, 115, 46, 78, 79, 87, 46, 84, 97, 108, 107, 115, 46>>,  \* "track1.talks.NOW.Talks."
      <<110, 101, 120, 116, 46, 116, 97, 108, 107, 115, 46, 116, 114, 97, 99, 107, 49, 46, 116, 97, 108, 107, 115, 46>>,  \* "next.talks.track1.talks."
      <<116, 114, 97, 99, 107, 49, 46, 116, 97, 108, 107, 115, 46, 110, 101, 120, 116, 46, 116, 97, 108, 107, 115, 46, 110, 111, 119, 46, 116, 97, 108, 107, 115, 46>>,  \* "track1.talks.next.talks.now.talks."
      <<104, 101, 108, 108, 111, 46, 101, 120, 97, 109, 112, 108, 101, 46>>,  \* "hello.example."
      <<110, 111, 119, 116, 97, 108, 107, 115, 46, 101, 120, 97, 109, 112, 108, 101, 46>>,  \* "nowtalks.example."
      <<46>> }  \* "."

ClientPorts == {40000}   \* the ports of the clients' resolver sockets

\* "udp port 3333": the capture filter passes a datagram from or to the port
PortPairs ==
    {<<c, Port>> : c \in ClientPorts} \cup {<<Port, c>> : c \in ClientPorts} \cup {<<Port, Port>>}

ArrivalTimes == {<<13, 10, 20, 330>>, <<13, 9, 0, 330>>}

Question(qname) == [qname |-> qname, qtype |-> "TXT"]

\* the packets sniff() hands to the handler when the server is reached at addr
Packets(addr) ==
    {[hasDNS |-> TRUE, net |-> "IP", src |-> a, dst |-> addr,
      sport |-> pp[1], dport |-> pp[2], id |-> i, qd |-> <<Question(n)>>, time |-> t]
        : a \in {"127.0.0.1", "192.0.2.53", "198.51.100.7"}, pp \in PortPairs,
          i \in {0, 4660}, n \in QNames, t \in ArrivalTimes}
    \cup
    {[hasDNS |-> TRUE, net |-> "IPv6", src |-> a, dst |-> "::1",
      sport |-> pp[1], dport |-> pp[2], id |-> 4660, qd |-> <<Question(n)>>, time |-> t]
        : a \in {"::1", "2001:db8::7"}, pp \in PortPairs, n \in QNames, t \in ArrivalTimes}
    \cup
    {[hasDNS |-> TRUE, net |-> "other", src |-> "", dst |-> "",
      sport |-> pp[1], dport |-> pp[2], id |-> 4660, qd |-> <<Question(n)>>,
      time |-> <<13, 10, 20, 330>>]
        : pp \in PortPairs, n \in QNames}
    \cup
    {[hasDNS |-> d, net |-> "IP", src |-> "198.51.100.7", dst |-> addr,
      sport |-> c, dport |-> Port, id |-> 4660, qd |-> <<>>,
      time |-> <<13, 10, 20, 330>>]
        : d \in BOOLEAN, c \in ClientPorts}

\* StoreAfterCall with a formatter that appends "TBA" to the stored list of
\* a talk without speakers
StoreAfterCallAppendingTBA(sched, op) ==
    IF op = "format"
    THEN <<sched[1],
           [g \in DOMAIN sched[2] |->
               IF sched[2][g].track = Track1 /\ sched[2][g].persons = <<>>
               THEN [sched[2][g] EXCEPT !.persons = <<TextTBA>>]
               ELSE sched[2][g]]>>
    ELSE sched

\* self.schedule after get_current_talks ("current"), get_next_talks ("next"),
\* get_track_talks ("track"), talks_to_txt_rdata ("format") or
\* create_dns_response ("respond"): each reads the index, the mapping and the
\* talk dicts (which the lookups return uncopied) and assigns to none of them
StoreAfterCall(sched, op) == sched

\* self.schedule after handle_dns_query took the branch br: only the Track
\* branch gets past its lookup, to the formatter and the response
StoreAfterHandling(sched, br) ==
    IF br = "Track"
    THEN StoreAfterCall(StoreAfterCall(StoreAfterCall(sched, "track"), "format"), "respond")
    ELSE sched

\* the datagrams of `datagrams` as the sniffer captures them: each is from or
\* to the port, so each passes the filter "udp port 3333"
Captured(datagrams, time) ==
    [i \in 1..Len(datagrams) |->
        [hasDNS |-> TRUE, net |-> datagrams[i].net,
         src |-> datagrams[i].src, dst |-> datagrams[i].dst,
         sport |-> datagrams[i].sport, dport |-> datagrams[i].dport,
         id |-> datagrams[i].id, qd |-> datagrams[i].qd, time |-> time]]

\* sniff(prn=self.handle_dns_query): one packet of a client handled to
\* completion, taken when no captured datagram waits.  What sniff() does with
\* an exception of the callback is the library's: the loop goes on or ends.
HandleDnsQuery(packet) ==
    /\ pc = "waiting"
    /\ running
    /\ wire = <<>>
    /\ LET done == handle_dns_query(schedule, packet)
       IN  /\ branch' = done.branch
           /\ outcome' = done.outcome
           /\ sent' = done.sent
           /\ running' \in (IF done.outcome = "raised" THEN BOOLEAN ELSE {TRUE})
           /\ wire' = Captured(done.sent, packet.time)
           /\ replies' = Len(done.sent)
           /\ schedule' = StoreAfterHandling(schedule, done.branch)
    /\ pkt' = packet
    /\ pc' = "done"
    /\ UNCHANGED <<serverAddr, ret, loaded>>

\* sniff() hands the handler a datagram the server sent itself.  The
\* datagram left in fragments of 512 bytes and the first is what the filter
\* passes: whether the library dissects it as DNS is the library's.
SniffOwn(dissected) ==
    /\ pc = "waiting"
    /\ running
    /\ wire # <<>>
    /\ replies < MaxReplies
    /\ LET packet == [Head(wire) EXCEPT !.hasDNS = dissected]
           done == handle_dns_query(schedule, packet)
       IN  /\ branch' = done.branch
           /\ outcome' = done.outcome
           /\ sent' = done.sent
           /\ running' \in (IF done.outcome = "raised" THEN BOOLEAN ELSE {TRUE})
           /\ wire' = Tail(wire) \o Captured(done.sent, packet.time)
           /\ replies' = replies + Len(done.sent)
           /\ schedule' = StoreAfterHandling(schedule, done.branch)
           /\ pkt' = packet
    /\ pc' = "done"
    /\ UNCHANGED <<serverAddr, ret, loaded>>

CallGetCurrentTalks(now_str) ==
    /\ pc = "waiting"
    /\ wire = <<>>
    /\ pc' = "done"
    /\ ret' = [op |-> "current", arg |-> now_str, value |-> get_current_talks(schedule, now_str)]
    /\ schedule' = StoreAfterCall(schedule, "current")
    /\ UNCHANGED <<serverAddr, running, pkt, branch, outcome, sent, wire, replies, loaded>>

CallGetNextTalks(now_str) ==
    /\ pc = "waiting"
    /\ wire = <<>>
    /\ pc' = "done"
    /\ ret' = [op |-> "next", arg |-> now_str, value |-> get_next_talks(schedule, now_str)]
    /\ schedule' = StoreAfterCall(schedule, "next")
    /\ UNCHANGED <<serverAddr, running, pkt, branch, outcome, sent, wire, replies, loaded>>

CallGetTrackTalks(track_num) ==
    /\ pc = "waiting"
    /\ wire = <<>>
    /\ pc' = "done"
    /\ ret' = [op |-> "track", arg |-> track_num, value |-> get_track_talks(schedule, track_num)]
    /\ schedule' = StoreAfterCall(schedule, "track")
    /\ UNCHANGED <<serverAddr, running, pkt, branch, outcome, sent, wire, replies, loaded>>

\* the caller, or the sniff loop, goes on to the next call or packet
Continue ==
    /\ pc = "done"
    /\ pc' = "waiting"
    /\ pkt' = NoPacket
    /\ branch' = "none"
    /\ outcome' = "none"
    /\ sent' = <<>>
    /\ ret' = NoCall
    /\ UNCHANGED <<schedule, serverAddr, running, wire, replies, loaded>>

Next ==
    \/ \E t \in CallTimes : CallGetCurrentTalks(t)
    \/ \E t \in CallTimes : CallGetNextTalks(t)
    \/ \E k \in Range(Tracks) \cup {Track9} : CallGetTrackTalks(k)
    \/ \E p \in Packets(serverAddr) : HandleDnsQuery(p)
    \/ \E d \in BOOLEAN : SniffOwn(d)
    \/ Continue

Spec == Init /\ [][Next]_vars

(***************************************************************************)
(* create_dns_response called on lines of chosen lengths                   *)
(***************************************************************************)
\* a line of `total` bytes of UTF-8: `shift` times "x", then the character cp
\* as often as it fits, then "y" up to the length
TestLine(shift, cp, total) ==
    LET s == IF shift < total THEN shift ELSE total
        k == (total - s) \div Utf8Width(cp)
        n == s + k + (total - s - k * Utf8Width(cp))
    IN  [i \in 1..n |-> IF i <= s THEN 120 ELSE IF i <= s + k THEN cp ELSE 121]

LineBytes == {1, 254, 255, 256, 257, 510, 511, 600, 766}

\* "a", e with acute (2 bytes), the en dash (3 bytes), an emoji (4 bytes)
LineChars == {97, 233, 8211, 128512}

TestLines == {TestLine(sh, cp, n) : sh \in 0..MaxShift, cp \in LineChars, n \in LineBytes}

TestPackets == {p \in Packets("127.0.0.1") :
                   /\ p.qd = <<Question(<<46>>)>>
                   /\ p.src \in {"198.51.100.7", "2001:db8::7"}
                   /\ p.sport \in ClientPorts
                   /\ p.time = <<13, 10, 20, 330>>}

CallCreateDnsResponse(query_packet, txt_records) ==
    /\ pc = "waiting"
    /\ LET done == create_dns_response(query_packet, txt_records)
       IN  /\ outcome' = done.outcome
           /\ sent' = done.sent
    /\ pkt' = query_packet
    /\ ret' = [op |-> "respond", arg |-> txt_records, value |-> <<>>]
    /\ pc' = "done"
    /\ schedule' = StoreAfterCall(schedule, "respond")
    /\ UNCHANGED <<serverAddr, running, branch, wire, replies, loaded>>

InitChunk ==
    /\ schedule = parse_talks(Dataset([kind |-> "plain", slot |-> 0]))
    /\ loaded = schedule
    /\ serverAddr = "127.0.0.1"
    /\ running = TRUE
    /\ wire = <<>>
    /\ replies = 0
    /\ Idle

NextChunk ==
    \/ \E p \in TestPackets, l \in TestLines : CallCreateDnsResponse(p, <<l>>)
    \/ \E p \in TestPackets, l \in TestLines :
          CallCreateDnsResponse(p, <<TestLine(0, 97, 1), l>>)
    \/ Continue

SpecChunk == InitChunk /\ [][NextChunk]_vars

(***************************************************************************)
(* Properties                                                              *)
(***************************************************************************)
\* handle_dns_query has handled the packet pkt
Handled == pc = "done" /\ pkt # NoPacket /\ ret.op = "none"

SameLetter(a, b) ==
    \/ a = b
    \/ a >= 65 /\ a <= 90 /\ b = a + 32
    \/ b >= 65 /\ b <= 90 /\ a = b + 32

\* pat occurs in name, letters compared without regard to case
Mentions(name, pat) ==
    \E i \in 1..Len(name) :
        /\ i + Len(pat) - 1 <= Len(name)
        /\ \A j \in 1..Len(pat) : SameLetter(name[i + j - 1], pat[j])

PatTrackTalks(n) == <<116, 114, 97, 99, 107, 48 + n, 46, 116, 97, 108, 107, 115>>  \* "trackN.talks"

\* the packet comes from the server's own listening address and port
OwnTraffic(p) == p.src = serverAddr /\ p.sport = Port

\* a query the server is to answer: a DNS question over IPv4 or IPv6 that is
\* not the server's own traffic
Accepted(p) ==
    /\ p.hasDNS
    /\ p.qd # <<>>
    /\ p.net \in {"IP", "IPv6"}
    /\ ~OwnTraffic(p)

\* an accepted query sent from a client's own port
ClientQuery(p) == Accepted(p) /\ p.sport # Port

\* the text of the i-th TXT record of a response
TxtOf(r, i) == Join(<<>>, r.an[i].rdata.strings)
TxtLinesOf(r) == [i \in 1..Len(r.an) |-> TxtOf(r, i)]

StartOf(t) == Instant(FromIsoFormat(t.date))
EndOf(t) == Instant(AddMinutes(FromIsoFormat(t.date), SlotMinutes))
Store == schedule[2]
ActiveAt(now_str) ==
    {g \in DOMAIN Store : /\ StartOf(Store[g]) <= Instant(FromIsoFormat(now_str))
                          /\ Instant(FromIsoFormat(now_str)) < EndOf(Store[g])}
OnTrack(track) == {g \in DOMAIN Store : Store[g].track = track}

Utf8Len(text) == Len(Utf8Encode(text))

\* C1: a query naming now.talks is answered, and the TXT lines of the answer
\* are exactly the lines of the talks whose [start, start + 30 min) holds the
\* packet's arrival time.
C1_NowQueryAnswered ==
    (Handled /\ ClientQuery(pkt) /\ Mentions(pkt.qd[1].qname, PatNowTalks)) =>
        /\ Len(sent) = 1
        /\ Len(sent[1].an) = Cardinality(ActiveAt(pkt.time))
        /\ Range(TxtLinesOf(sent[1])) = {TxtLine(Store[g]) : g \in ActiveAt(pkt.time)}

\* C2: a query naming none of the three patterns is answered with the one
\* TXT line "Query the PyCon schedule with DNS!".
C2_UnknownQueryGetsHelp ==
    (/\ Handled
     /\ ClientQuery(pkt)
     /\ ~Mentions(pkt.qd[1].qname, PatNowTalks)
     /\ ~Mentions(pkt.qd[1].qname, PatNextTalks)
     /\ ~Mentions(pkt.qd[1].qname, PatTrack1Talks)) =>
        /\ Len(sent) = 1
        /\ TxtLinesOf(sent[1]) = <<HelpText>>

\* C3: every query name takes exactly one of the branches Now, Next, Track,
\* Unknown: the first of now.talks, next.talks, track1.talks that occurs in
\* it without regard to case, and Unknown when none does.
C3_ClassificationPriority ==
    (Handled /\ pkt.hasDNS /\ pkt.qd # <<>>) =>
        /\ branch \in {"Now", "Next", "Track", "Unknown"}
        /\ branch = (IF Mentions(pkt.qd[1].qname, PatNowTalks) THEN "Now"
                     ELSE IF Mentions(pkt.qd[1].qname, PatNextTalks) THEN "Next"
                     ELSE IF Mentions(pkt.qd[1].qname, PatTrack1Talks) THEN "Track"
                     ELSE "Unknown")

\* a name holding track1.talks and now.talks, a capital letter among them, went
\* the Now branch
C3_Witness ==
    /\ Handled
    /\ pkt.hasDNS
    /\ pkt.qd # <<>>
    /\ Mentions(pkt.qd[1].qname, PatNowTalks)
    /\ Mentions(pkt.qd[1].qname, PatTrack1Talks)
    /\ \E i \in 1..Len(pkt.qd[1].qname) : pkt.qd[1].qname[i] \in 65..90
    /\ branch = "Now"

\* C4: for N in 1..3 a query naming trackN.talks (and neither now.talks nor
\* next.talks) goes to the track lookup and is answered with one TXT line per
\* talk that get_track_talks("Track N") returns, not with the help line.
C4_EveryTrackRouted ==
    \A n \in 1..3 :
        (/\ Handled
         /\ ClientQuery(pkt)
         /\ Mentions(pkt.qd[1].qname, PatTrackTalks(n))
         /\ ~Mentions(pkt.qd[1].qname, PatNowTalks)
         /\ ~Mentions(pkt.qd[1].qname, PatNextTalks)) =>
            /\ branch = "Track"
            /\ Len(sent) = 1
            /\ TxtLinesOf(sent[1]) # <<HelpText>>
            /\ TxtLinesOf(sent[1])
                  = talks_to_txt_rdata(DictItems(get_track_talks(schedule, Tracks[n]))).lines

\* C5: a packet whose source address and port are the server's own is
\* answered with no datagram at all.
C5_OwnTrafficUnanswered ==
    (pc = "done" /\ pkt # NoPacket /\ OwnTraffic(pkt)) => sent = <<>>

\* C6: every talk T of the store ends 30 minutes after it starts, is among
\* get_current_talks(start(T)) and is not among get_current_talks(end(T)).
C6_HalfOpenInterval ==
    /\ \A g \in DOMAIN Store : EndOf(Store[g]) = StartOf(Store[g]) + 30
    /\ \A i \in 1..Len(schedule[1]) :
          Instant(FromIsoFormat(schedule[1][i][1][2]))
              = Instant(FromIsoFormat(schedule[1][i][1][1])) + 30
    /\ (pc = "done" /\ ret.op = "current") =>
          \A g \in DOMAIN Store :
              /\ Instant(FromIsoFormat(ret.arg)) = StartOf(Store[g])
                    => Store[g] \in Range(ret.value)
              /\ Instant(FromIsoFormat(ret.arg)) = EndOf(Store[g])
                    => Store[g] \notin Range(ret.value)

\* no talk of the store starts after t and up to u (instants)
NoStartIn(t, u) == \A g \in DOMAIN Store : ~(t < StartOf(Store[g]) /\ StartOf(Store[g]) <= u)

\* C7: get_next_talks(t) is empty exactly when no talk starts after t;
\* otherwise it holds, one per track, talks that start at the earliest start
\* after t and none that starts at or before t; and it returns the same for
\* every later time u with no talk starting in (t, u].
C7_NextTalks ==
    (pc = "done" /\ ret.op = "next") =>
        LET t == Instant(FromIsoFormat(ret.arg))
            future == {g \in DOMAIN Store : StartOf(Store[g]) > t}
        IN  /\ (future = {}) <=> (ret.value = <<>>)
            /\ \A i \in 1..Len(ret.value) :
                  /\ \E g \in DOMAIN Store : Store[g] = ret.value[i][2]
                  /\ ret.value[i][2].track = ret.value[i][1]
                  /\ StartOf(ret.value[i][2]) > t
                  /\ \A g \in future : StartOf(ret.value[i][2]) <= StartOf(Store[g])
                  /\ \A j \in 1..Len(ret.value) : ret.value[j][1] = ret.value[i][1] => j = i
            /\ \A u \in CallTimes :
                  (t < Instant(FromIsoFormat(u)) /\ NoStartIn(t, Instant(FromIsoFormat(u))))
                      => get_next_talks(schedule, u) = ret.value

\* get_next_talks returned a talk per track, at a time from which a later
\* time is reached with no talk starting in between
C7_Witness ==
    /\ pc = "done"
    /\ ret.op = "next"
    /\ Len(ret.value) = 3
    /\ \E u \in CallTimes :
          /\ Instant(FromIsoFormat(ret.arg)) < Instant(FromIsoFormat(u))
          /\ NoStartIn(Instant(FromIsoFormat(ret.arg)), Instant(FromIsoFormat(u)))

\* C8: get_track_talks(track) returns all talks of the track and no others,
\* by ascending start.
C8_TrackTalksByStart ==
    (pc = "done" /\ ret.op = "track") =>
        /\ Range(ret.value) = {Store[g] : g \in OnTrack(ret.arg)}
        /\ Len(ret.value) = Cardinality(OnTrack(ret.arg))
        /\ \A i \in 1..Len(ret.value) : \A j \in i..Len(ret.value) :
              StartOf(ret.value[i]) <= StartOf(ret.value[j])

\* create_dns_response was called on lines and built the response sent[1]
Chunked == pc = "done" /\ ret.op = "respond" /\ outcome = "sent"

\* the bytes of the character cut at byte offset b of an encoding that lie
\* before the cut, and those that lie after it
CutBefore(encoded, b) ==
    IF b >= Len(encoded) \/ b = 0 \/ ~IsCont(encoded[b + 1]) THEN 0
    ELSE b + 1 - (CHOOSE i \in 1..b :
                     /\ ~IsCont(encoded[i])
                     /\ \A k \in (i + 1)..b : IsCont(encoded[k]))
CutAfter(encoded, b) ==
    IF b >= Len(encoded) \/ b = 0 \/ ~IsCont(encoded[b + 1]) THEN 0
    ELSE Cardinality({i \in (b + 1)..Len(encoded) :
                         \A k \in (b + 1)..i : IsCont(encoded[k])})

C10_ResponseAssembled ==
    (Handled /\ ClientQuery(pkt) /\ branch = "Track") =>
        LET lines == talks_to_txt_rdata(DictItems(get_track_talks(schedule, Track1))).lines
        IN  /\ Len(sent) = 1
            /\ sent[1].src = pkt.dst /\ sent[1].dst = pkt.src
            /\ sent[1].sport = pkt.dport /\ sent[1].dport = pkt.sport
            /\ sent[1].id = pkt.id /\ sent[1].qd = pkt.qd
            /\ sent[1].qr = 1 /\ sent[1].aa = 1
            /\ Len(sent[1].an) = Len(lines)
            /\ \A i \in 1..Len(lines) :
                  /\ sent[1].an[i].type = "TXT"
                  /\ sent[1].an[i].ttl = 60
                  /\ sent[1].an[i].rdata.strings = Chunks(lines[i])
                  /\ sent[1].an[i].rdata.scalar = (Len(Chunks(lines[i])) = 1)

\* C11: the server answers none of its own responses, whatever the address
\* it listens on: after one query of a client it sends one response at most
C11_NoReplyLoop == replies <= 1

\* C12: the schedule stays what parse_talks returned at load, so a track
\* lookup returns, whatever was handled or called before it, the talks the
\* same lookup returns on the schedule as loaded
C12_ScheduleNeverChanges ==
    /\ schedule = loaded
    /\ (pc = "done" /\ ret.op = "track")
          => ret.value = get_track_talks(loaded, ret.arg)

\* a track lookup that returns talks, called after a query was answered
C12_Witness ==
    /\ pc = "done"
    /\ ret.op = "track"
    /\ ret.value # <<>>
    /\ replies >= 1

====
